---- MODULE Spec2Model ----
(***************************************************************************)
(* A model of SubredditConfig (src/src/classes/SubredditConfig.ts) and of  *)
(* the JSON schema it validates against (CONFIG_SCHEMA in                  *)
(* src/unnamed/part_000, the module '../types/RawSubredditConfig').        *)
(*                                                                         *)
(* A JSON value is a tagged record; an object keeps its properties in      *)
(* insertion order, as a JavaScript object does, so that JSON.stringify    *)
(* and the validator's "for key in data" walk them in the source's order.  *)
(***************************************************************************)
EXTENDS Integers, Sequences, FiniteSets, TLC

----------------------------------------------------------------------------
(* JSON values                                                             *)

JNull == [t |-> "null"]

JUndef == [t |-> "undefined"]

JBool(b) == [t |-> "boolean", b |-> b]

JNum(n) == [t |-> "number", n |-> n]

JStr(s) == [t |-> "string", s |-> s]

JArr(a) == [t |-> "array", a |-> a]

JObj(o) == [t |-> "object", o |-> o]

Prop(k, v) == [k |-> k, v |-> v]

KeyIndex(obj, k) == CHOOSE i \in DOMAIN obj.o : obj.o[i].k = k

HasKey(obj, k) == \E i \in DOMAIN obj.o : obj.o[i].k = k

\* obj[k]: undefined for a key the object does not own
Get(obj, k) == IF HasKey(obj, k) THEN obj.o[KeyIndex(obj, k)].v ELSE JUndef

\* obj[k] = v: an existing key keeps its place, a new key goes last
Set(obj, k, v) ==
    IF HasKey(obj, k)
    THEN JObj([obj.o EXCEPT ![KeyIndex(obj, k)] = Prop(k, v)])
    ELSE JObj(Append(obj.o, Prop(k, v)))

\* !v
Falsy(v) == v \in {JUndef, JNull, JBool(FALSE), JNum(0), JStr("")}

\* v ?? d
Nullish(v) == v \in {JUndef, JNull}

----------------------------------------------------------------------------
(* '../helpers/config'                                                     *)

EARLIEST_KNOWN_CONFIG_SCHEMA == 1

LATEST_KNOWN_CONFIG_SCHEMA == 1

----------------------------------------------------------------------------
(* CONFIG_SCHEMA                                                           *)

StringSchema == [type |-> "string"]

BooleanSchema == [type |-> "boolean"]

DomainTagSchema ==
    [type |-> "object",
     properties |-> << Prop("name", StringSchema), Prop("color", StringSchema) >>,
     required |-> << "name", "color" >>,
     additionalProperties |-> FALSE]

BanMacroSchema ==
    [type |-> "object",
     properties |-> << Prop("banNote", StringSchema),
                       Prop("banMessage", StringSchema) >>,
     nullable |-> TRUE,
     required |-> << "banNote", "banMessage" >>,
     additionalProperties |-> FALSE]

RemovalReasonSchema ==
    [type |-> "object",
     properties |-> << Prop("title", StringSchema),
                       Prop("text", StringSchema),
                       Prop("flairText", StringSchema),
                       Prop("flairCSS", StringSchema),
                       Prop("removePosts", BooleanSchema),
                       Prop("removeComments", BooleanSchema) >>,
     required |-> << "title", "text", "flairText", "flairCSS",
                     "removePosts", "removeComments" >>,
     additionalProperties |-> FALSE]

\* the removalReasons record declares no additionalProperties keyword
RemovalReasonsSchema ==
    [type |-> "object",
     properties |-> << Prop("header", StringSchema),
                       Prop("footer", StringSchema),
                       Prop("pmsubject", StringSchema),
                       Prop("logreason", StringSchema),
                       Prop("logsub", StringSchema),
                       Prop("logtitle", StringSchema),
                       Prop("bantitle", StringSchema),
                       Prop("getfrom", StringSchema),
                       Prop("removalOption",
                            [type |-> "string",
                             enum |-> << "suggest", "leave", "force" >>]),
                       Prop("typeReply",
                            [type |-> "string",
                             enum |-> << "reply", "pm", "both", "none" >>]),
                       Prop("typeStickied", BooleanSchema),
                       Prop("typeCommentAsSubreddit", BooleanSchema),
                       Prop("typeLockThread", BooleanSchema),
                       Prop("typeLockComment", BooleanSchema),
                       Prop("typeAsSub", BooleanSchema),
                       Prop("autoArchive", BooleanSchema),
                       Prop("reasons",
                            [type |-> "array", items |-> RemovalReasonSchema]) >>,
     required |-> << "header", "footer", "pmsubject", "logreason", "logsub",
                     "logtitle", "bantitle", "getfrom", "removalOption",
                     "typeReply", "typeStickied", "typeCommentAsSubreddit",
                     "typeLockThread", "typeLockComment", "typeAsSub",
                     "autoArchive", "reasons" >>,
     nullable |-> TRUE]

ModMacroSchema ==
    [type |-> "object",
     properties |-> << Prop("title", StringSchema),
                       Prop("text", StringSchema),
                       Prop("distinguish", BooleanSchema),
                       Prop("ban", BooleanSchema),
                       Prop("mute", BooleanSchema),
                       Prop("remove", BooleanSchema),
                       Prop("approve", BooleanSchema),
                       Prop("lockthread", BooleanSchema),
                       Prop("sticky", BooleanSchema),
                       Prop("archivemodmail", BooleanSchema),
                       Prop("highlightmodmail", BooleanSchema) >>,
     required |-> << "title", "text", "distinguish", "ban", "mute", "remove",
                     "approve", "lockthread", "sticky", "archivemodmail",
                     "highlightmodmail" >>,
     additionalProperties |-> FALSE]

UsernoteTypeSchema ==
    [type |-> "object",
     properties |-> << Prop("key", StringSchema),
                       Prop("color", StringSchema),
                       Prop("text", StringSchema) >>,
     required |-> << "key", "color", "text" >>,
     additionalProperties |-> FALSE]

\* the ver schema without its maximum
VerSchema_NoMaximum ==
    [type |-> "number",
     minimum |-> EARLIEST_KNOWN_CONFIG_SCHEMA,
     nullable |-> FALSE]

VerSchema ==
    [type |-> "number",
     minimum |-> EARLIEST_KNOWN_CONFIG_SCHEMA,
     maximum |-> LATEST_KNOWN_CONFIG_SCHEMA,
     nullable |-> FALSE]

CONFIG_SCHEMA ==
    [type |-> "object",
     properties |-> << Prop("ver", VerSchema),
                       Prop("domainTags",
                            [type |-> "array", items |-> DomainTagSchema,
                             nullable |-> TRUE]),
                       Prop("banMacros", BanMacroSchema),
                       Prop("removalReasons", RemovalReasonsSchema),
                       Prop("modMacros",
                            [type |-> "array", items |-> ModMacroSchema,
                             nullable |-> TRUE]),
                       Prop("usernoteColors",
                            [type |-> "array", items |-> UsernoteTypeSchema,
                             nullable |-> TRUE]) >>,
     required |-> << "ver" >>,
     additionalProperties |-> FALSE]

----------------------------------------------------------------------------
(* The validator: new Ajv({coerceTypes: true}).compile(CONFIG_SCHEMA).     *)
(* It stops at the first error (allErrors is off).  At one schema it runs  *)
(* the type check (with coercion), then the keywords of the data's type:   *)
(* enum; maximum, minimum; items; required, additionalProperties,          *)
(* properties.                                                             *)

MaxNumeral == 3

Valid(d) == [valid |-> TRUE, data |-> d, instancePath |-> "", message |-> ""]

Invalid(path, msg) ==
    [valid |-> FALSE, data |-> JUndef, instancePath |-> path, message |-> msg]

\* ajv.errorsText(validator.errors)
ErrorsText(r) == "data" \o r.instancePath \o " " \o r.message

\* the schema's type, and "null" too under nullable: true
SchemaTypes(schema) ==
    IF "nullable" \in DOMAIN schema /\ schema.nullable
    THEN << schema.type, "null" >>
    ELSE << schema.type >>

\* typeof data == "string" && data && data == +data
IsNumericString(d) ==
    d.t = "string" /\ \E n \in 0..MaxNumeral : ToString(n) = d.s

NumericValue(d) == CHOOSE n \in 0..MaxNumeral : ToString(n) = d.s

\* coerceSpecificType: the value coerced to type ty, JUndef where the rule
\* for ty does not apply to the value
CoerceTo(d, ty) ==
    CASE ty = "string" ->
            IF d.t = "number" THEN JStr(ToString(d.n))
            ELSE IF d.t = "boolean" THEN JStr(IF d.b THEN "true" ELSE "false")
            ELSE IF d.t = "null" THEN JStr("")
            ELSE JUndef
      [] ty = "number" ->
            IF d.t = "boolean" THEN JNum(IF d.b THEN 1 ELSE 0)
            ELSE IF d.t = "null" THEN JNum(0)
            ELSE IF IsNumericString(d) THEN JNum(NumericValue(d))
            ELSE JUndef
      [] ty = "boolean" ->
            IF d = JStr("false") \/ d = JNum(0) \/ d.t = "null" THEN JBool(FALSE)
            ELSE IF d = JStr("true") \/ d = JNum(1) THEN JBool(TRUE)
            ELSE JUndef
      [] ty = "null" ->
            IF d = JStr("") \/ d = JNum(0) \/ d = JBool(FALSE) THEN JNull
            ELSE JUndef
      [] OTHER -> JUndef

\* coerceData: the first type of the schema, in order, the value coerces to
CoerceData(d, types) ==
    IF CoerceTo(d, types[1]) # JUndef THEN CoerceTo(d, types[1])
    ELSE IF Len(types) > 1 THEN CoerceTo(d, types[2])
    ELSE JUndef

\* the type check: the value as it is when its type is one of the schema's,
\* the coerced value otherwise, JUndef when there is no coercion (type error)
CheckType(schema, d) ==
    IF \E i \in DOMAIN SchemaTypes(schema) : SchemaTypes(schema)[i] = d.t
    THEN d
    ELSE CoerceData(d, SchemaTypes(schema))

HasAdditional(schema, obj) ==
    /\ "additionalProperties" \in DOMAIN schema
    /\ schema.additionalProperties = FALSE
    /\ \E i \in DOMAIN obj.o :
          \A j \in DOMAIN schema.properties : schema.properties[j].k # obj.o[i].k

MissingRequired(schema, obj) ==
    { i \in DOMAIN schema.required : Get(obj, schema.required[i]) = JUndef }

FirstOf(S) == CHOOSE i \in S : \A j \in S : i <= j

RECURSIVE Validate(_, _, _)
RECURSIVE ValidateItems(_, _, _, _)
RECURSIVE ValidateProperties(_, _, _, _)

\* items naming its elements from 1
ValidateItems_OneBased(schema, a, path, i) ==
    IF i > Len(a) THEN Valid(JArr(a))
    ELSE LET r == Validate(schema, a[i], path \o "/" \o ToString(i))
         IN  IF ~r.valid THEN r
             ELSE ValidateItems(schema, [a EXCEPT ![i] = r.data], path, i + 1)

\* items: the elements in order, each at <path>/<index>
ValidateItems(schema, a, path, i) ==
    IF i > Len(a) THEN Valid(JArr(a))
    ELSE LET r == Validate(schema, a[i], path \o "/" \o ToString(i - 1))
         IN  IF ~r.valid THEN r
             ELSE ValidateItems(schema, [a EXCEPT ![i] = r.data], path, i + 1)

\* properties: the declared properties in the schema's order, each one the
\* data owns at <path>/<key>
ValidateProperties(props, obj, path, j) ==
    IF j > Len(props) THEN Valid(obj)
    ELSE IF Get(obj, props[j].k) = JUndef
         THEN ValidateProperties(props, obj, path, j + 1)
         ELSE LET r == Validate(props[j].v, Get(obj, props[j].k),
                                path \o "/" \o props[j].k)
              IN  IF ~r.valid THEN r
                  ELSE ValidateProperties(props, Set(obj, props[j].k, r.data),
                                          path, j + 1)

Validate(schema, data, path) ==
    LET d == CheckType(schema, data)
    IN  IF d = JUndef THEN Invalid(path, "must be " \o schema.type)
        ELSE IF d.t = "string" THEN
            IF "enum" \in DOMAIN schema
               /\ \A i \in DOMAIN schema.enum : schema.enum[i] # d.s
            THEN Invalid(path, "must be equal to one of the allowed values")
            ELSE Valid(d)
        ELSE IF d.t = "number" THEN
            IF "maximum" \in DOMAIN schema /\ d.n > schema.maximum
            THEN Invalid(path, "must be <= " \o ToString(schema.maximum))
            ELSE IF "minimum" \in DOMAIN schema /\ d.n < schema.minimum
            THEN Invalid(path, "must be >= " \o ToString(schema.minimum))
            ELSE Valid(d)
        ELSE IF d.t = "array" THEN
            IF "items" \in DOMAIN schema
            THEN ValidateItems(schema.items, d.a, path, 1)
            ELSE Valid(d)
        ELSE IF d.t = "object" THEN
            IF "required" \in DOMAIN schema /\ MissingRequired(schema, d) # {}
            THEN Invalid(path, "must have required property '"
                     \o schema.required[FirstOf(MissingRequired(schema, d))] \o "'")
            ELSE IF HasAdditional(schema, d)
            THEN Invalid(path, "must NOT have additional properties")
            ELSE IF "properties" \in DOMAIN schema
            THEN ValidateProperties(schema.properties, d, path, 1)
            ELSE Valid(d)
        ELSE Valid(d)

----------------------------------------------------------------------------
(* '../helpers/config': the defaults and the migration                     *)

UsernoteType(key, color, text) ==
    JObj(<< Prop("key", JStr(key)), Prop("color", JStr(color)),
            Prop("text", JStr(text)) >>)

DEFAULT_USERNOTE_TYPES ==
    << UsernoteType("gooduser", "green", "Good Contributor"),
       UsernoteType("spamwatch", "fuchsia", "Spam Watch"),
       UsernoteType("ban", "red", "Ban") >>

DEFAULT_REMOVAL_REASONS ==
    JObj(<< Prop("header", JStr("")),
            Prop("footer", JStr("")),
            Prop("pmsubject", JStr("")),
            Prop("logreason", JStr("")),
            Prop("logsub", JStr("")),
            Prop("logtitle", JStr("")),
            Prop("bantitle", JStr("")),
            Prop("getfrom", JStr("")),
            Prop("removalOption", JStr("suggest")),
            Prop("typeReply", JStr("reply")),
            Prop("typeStickied", JBool(FALSE)),
            Prop("typeCommentAsSubreddit", JBool(FALSE)),
            Prop("typeLockThread", JBool(FALSE)),
            Prop("typeLockComment", JBool(FALSE)),
            Prop("typeAsSub", JBool(FALSE)),
            Prop("autoArchive", JBool(FALSE)) >>)

\* a version outside [earliest, latest] is a hard error; a document at the
\* latest version is returned as it is
migrateConfigToLatestSchema(doc) ==
    IF /\ Get(doc, "ver").t = "number"
       /\ \/ Get(doc, "ver").n < EARLIEST_KNOWN_CONFIG_SCHEMA
          \/ Get(doc, "ver").n > LATEST_KNOWN_CONFIG_SCHEMA
    THEN [ok |-> FALSE, data |-> JUndef, message |-> "Unknown schema version"]
    ELSE [ok |-> TRUE, data |-> doc, message |-> ""]

----------------------------------------------------------------------------
(* SubredditConfig: the constructor                                        *)

\* validateConfig without the loop that turns null into undefined
Normalize_Identity(d) == d

\* for (const prop in this.data) if (this.data[prop] === null)
\*     this.data[prop] = undefined
Normalize(d) ==
    JObj([i \in DOMAIN d.o |->
             IF d.o[i].v = JNull THEN Prop(d.o[i].k, JUndef) ELSE d.o[i]])

\* validateConfig: the document normalized, or the error thrown
validateConfig(d) ==
    LET r == Validate(CONFIG_SCHEMA, d, "")
    IN  IF ~r.valid
        THEN [ok |-> FALSE, data |-> JUndef, message |-> ErrorsText(r)]
        ELSE [ok |-> TRUE, data |-> Normalize(r.data), message |-> ""]

\* new SubredditConfig(jsonString), from the parsed text
constructor(parsed) ==
    LET m == migrateConfigToLatestSchema(parsed)
    IN  IF ~m.ok THEN m ELSE validateConfig(m.data)

----------------------------------------------------------------------------
(* SubredditConfig: the accessors.  Each gives the document it leaves      *)
(* behind (data) and the value it returns (ret).                           *)

\* DEFAULT_USERNOTE_TYPES.map(noteType => ({...noteType, isDefault: true}))
CopyOfDefaultTypes_Marked ==
    JArr([i \in DOMAIN DEFAULT_USERNOTE_TYPES |->
             Set(DEFAULT_USERNOTE_TYPES[i], "isDefault", JBool(TRUE))])

\* DEFAULT_USERNOTE_TYPES.map(noteType => ({...noteType}))
CopyOfDefaultTypes ==
    JArr([i \in DOMAIN DEFAULT_USERNOTE_TYPES |->
             JObj(DEFAULT_USERNOTE_TYPES[i].o)])

\* [...DEFAULT_USERNOTE_TYPES]: a new array of the default's own records
MaterializedTypes_SameRecords(defaults) ==
    [a |-> defaults, arr |-> FALSE, recs |-> [i \in DOMAIN defaults |-> i]]

\* the same expression with the objects it makes: map makes a new array
\* (arr: the result is not the default array) and each {...noteType} a new
\* record (recs: element i is record recs[i] of the default array, 0 for a
\* record of its own)
MaterializedTypes(defaults) ==
    [a |-> [i \in DOMAIN defaults |-> JObj(defaults[i].o)],
     arr |-> FALSE,
     recs |-> [i \in DOMAIN defaults |-> 0]]

\* getAllNoteTypes without the test of the length: an empty array is kept
getAllNoteTypes_NoLengthCheck(d) ==
    LET u  == Get(d, "usernoteColors")
        d2 == IF Falsy(u)
              THEN Set(d, "usernoteColors", CopyOfDefaultTypes)
              ELSE d
    IN  [data |-> d2, ret |-> Get(d2, "usernoteColors")]

\* getAllNoteTypes returning the default without writing it into the document
getAllNoteTypes_Ephemeral(d) ==
    LET u == Get(d, "usernoteColors")
    IN  [data |-> d,
         ret |-> IF Falsy(u) \/ Len(u.a) = 0 THEN CopyOfDefaultTypes ELSE u]

getAllNoteTypes(d) ==
    LET u  == Get(d, "usernoteColors")
        d2 == IF Falsy(u) \/ Len(u.a) = 0
              THEN Set(d, "usernoteColors", CopyOfDefaultTypes)
              ELSE d
    IN  [data |-> d2, ret |-> Get(d2, "usernoteColors")]

\* find taking the last element of that key
Find_Last(a, key) ==
    IF \E i \in DOMAIN a : Get(a[i], "key") = JStr(key)
    THEN a[CHOOSE i \in DOMAIN a :
              /\ Get(a[i], "key") = JStr(key)
              /\ \A j \in DOMAIN a : Get(a[j], "key") = JStr(key) => j <= i]
    ELSE JUndef

\* Array.prototype.find: the first element the predicate holds of
Find(a, key) ==
    IF \E i \in DOMAIN a : Get(a[i], "key") = JStr(key)
    THEN a[FirstOf({ i \in DOMAIN a : Get(a[i], "key") = JStr(key) })]
    ELSE JUndef

\* getNoteType looking the key up in the default without storing it
getNoteType_NoStore(d, key) ==
    LET r == getAllNoteTypes(d)
    IN  [data |-> d, ret |-> Find(r.ret.a, key)]

getNoteType(d, key) ==
    LET r == getAllNoteTypes(d)
    IN  [data |-> r.data, ret |-> Find(r.ret.a, key)]

\* getDomainTags writing its default into the document
getDomainTags_Materialize(d) ==
    IF Nullish(Get(d, "domainTags"))
    THEN [data |-> Set(d, "domainTags", JArr(<< >>)), ret |-> JArr(<< >>)]
    ELSE [data |-> d, ret |-> Get(d, "domainTags")]

getDomainTags(d) ==
    [data |-> d,
     ret |-> IF Nullish(Get(d, "domainTags")) THEN JArr(<< >>)
             ELSE Get(d, "domainTags")]

getBanMacro(d) == [data |-> d, ret |-> Get(d, "banMacros")]

getRemovalReasonSettings(d) ==
    LET rr == Get(d, "removalReasons")
    IN  [data |-> d,
         ret |-> IF Falsy(rr) THEN DEFAULT_REMOVAL_REASONS
                 ELSE JObj(<<
                     Prop("header", Get(rr, "header")),
                     Prop("footer", Get(rr, "footer")),
                     Prop("pmsubject", Get(rr, "pmsubject")),
                     Prop("logreason", Get(rr, "logreason")),
                     Prop("logsub", Get(rr, "logsub")),
                     Prop("logtitle", Get(rr, "logtitle")),
                     Prop("bantitle", Get(rr, "bantitle")),
                     Prop("getfrom", Get(rr, "getfrom")),
                     Prop("removalOption", Get(rr, "removalOption")),
                     Prop("typeReply", Get(rr, "typeReply")),
                     Prop("typeStickied", Get(rr, "typeStickied")),
                     Prop("typeCommentAsSubreddit",
                          Get(rr, "typeCommentAsSubreddit")),
                     Prop("typeLockThread", Get(rr, "typeLockComment")),
                     Prop("typeLockComment", Get(rr, "typeLockComment")),
                     Prop("typeAsSub", Get(rr, "typeAsSub")),
                     Prop("autoArchive", Get(rr, "autoArchive")) >>)]

getRemovalReasons(d) ==
    [data |-> d,
     ret |-> IF Falsy(Get(d, "removalReasons")) THEN JArr(<< >>)
             ELSE Get(Get(d, "removalReasons"), "reasons")]

\* getModMacros without its default
getModMacros_NoDefault(d) == [data |-> d, ret |-> Get(d, "modMacros")]

getModMacros(d) ==
    [data |-> d,
     ret |-> IF Falsy(Get(d, "modMacros")) THEN JArr(<< >>)
             ELSE Get(d, "modMacros")]

toJSON(d) == [data |-> d, ret |-> d]

----------------------------------------------------------------------------
(* JSON.stringify(this.data, null, undefined): the text as its tokens.     *)
(* A property whose value is undefined is left out; an undefined array     *)
(* element is written null.                                                *)

Punct(c) == [k |-> "punct", s |-> c]

StrTok(s) == [k |-> "string", s |-> s]

NumTok(n) == [k |-> "number", s |-> ToString(n)]

LitTok(s) == [k |-> "literal", s |-> s]

RECURSIVE Stringify(_)
RECURSIVE Members(_, _)
RECURSIVE Elements(_, _)

Members(o, i) ==
    IF i > Len(o) THEN << >>
    ELSE IF o[i].v = JUndef THEN Members(o, i + 1)
    ELSE LET rest == Members(o, i + 1)
         IN  << StrTok(o[i].k), Punct(":") >> \o Stringify(o[i].v)
                \o (IF rest = << >> THEN << >> ELSE << Punct(",") >> \o rest)

Elements(a, i) ==
    IF i > Len(a) THEN << >>
    ELSE Stringify(a[i])
            \o (IF i = Len(a) THEN << >> ELSE << Punct(",") >> \o Elements(a, i + 1))

Stringify(v) ==
    CASE v.t = "null" -> << LitTok("null") >>
      [] v.t = "undefined" -> << LitTok("null") >>
      [] v.t = "boolean" -> << LitTok(IF v.b THEN "true" ELSE "false") >>
      [] v.t = "number" -> << NumTok(v.n) >>
      [] v.t = "string" -> << StrTok(v.s) >>
      [] v.t = "array" -> << Punct("[") >> \o Elements(v.a, 1) \o << Punct("]") >>
      [] v.t = "object" -> << Punct("{") >> \o Members(v.o, 1) \o << Punct("}") >>

toString(d) == Stringify(d)

----------------------------------------------------------------------------
(* JSON.parse(jsonString), from the tokens of the text: the value, or a    *)
(* SyntaxError (ok FALSE) where the tokens are no JSON text.  A key that   *)
(* comes twice keeps its first place and its last value.                   *)

SyntaxError == [ok |-> FALSE, v |-> JUndef, next |-> 0]

Parsed(v, next) == [ok |-> TRUE, v |-> v, next |-> next]

IsToken(toks, i, tok) == i \in DOMAIN toks /\ toks[i] = tok

RECURSIVE ParseValue(_, _)
RECURSIVE ParseElements(_, _, _)
RECURSIVE ParseMembers(_, _, _)

\* the elements from token i on, after those in acc, up to the closing ]
ParseElements(toks, i, acc) ==
    LET e == ParseValue(toks, i)
    IN  IF ~e.ok THEN SyntaxError
        ELSE IF IsToken(toks, e.next, Punct(","))
        THEN ParseElements(toks, e.next + 1, Append(acc, e.v))
        ELSE IF IsToken(toks, e.next, Punct("]"))
        THEN Parsed(JArr(Append(acc, e.v)), e.next + 1)
        ELSE SyntaxError

\* the members from token i on, after those in acc, up to the closing }
ParseMembers(toks, i, acc) ==
    IF ~(i \in DOMAIN toks /\ toks[i].k = "string"
          /\ IsToken(toks, i + 1, Punct(":")))
    THEN SyntaxError
    ELSE LET e == ParseValue(toks, i + 2)
             o == Set(acc, toks[i].s, e.v)
         IN  IF ~e.ok THEN SyntaxError
             ELSE IF IsToken(toks, e.next, Punct(","))
             THEN ParseMembers(toks, e.next + 1, o)
             ELSE IF IsToken(toks, e.next, Punct("}"))
             THEN Parsed(o, e.next + 1)
             ELSE SyntaxError

ParseValue(toks, i) ==
    IF i \notin DOMAIN toks THEN SyntaxError
    ELSE LET tok == toks[i]
         IN  CASE tok.k = "literal" ->
                    IF tok.s = "null" THEN Parsed(JNull, i + 1)
                    ELSE IF tok.s = "true" THEN Parsed(JBool(TRUE), i + 1)
                    ELSE IF tok.s = "false" THEN Parsed(JBool(FALSE), i + 1)
                    ELSE SyntaxError
               [] tok.k = "number" ->
                    IF IsNumericString(JStr(tok.s))
                    THEN Parsed(JNum(NumericValue(JStr(tok.s))), i + 1)
                    ELSE SyntaxError
               [] tok.k = "string" -> Parsed(JStr(tok.s), i + 1)
               [] tok = Punct("[") ->
                    IF IsToken(toks, i + 1, Punct("]"))
                    THEN Parsed(JArr(<< >>), i + 2)
                    ELSE ParseElements(toks, i + 1, << >>)
               [] tok = Punct("{") ->
                    IF IsToken(toks, i + 1, Punct("}"))
                    THEN Parsed(JObj(<< >>), i + 2)
                    ELSE ParseMembers(toks, i + 1, JObj(<< >>))
               [] OTHER -> SyntaxError

\* one value and nothing after it
Parse(toks) ==
    LET r == ParseValue(toks, 1)
    IN  IF r.ok /\ r.next = Len(toks) + 1 THEN r ELSE SyntaxError

\* new SubredditConfig(jsonString), from the text
constructorFromText(toks) ==
    LET p == Parse(toks)
    IN  IF p.ok THEN constructor(p.v)
        ELSE [ok |-> FALSE, data |-> JUndef, message |-> "SyntaxError"]

----------------------------------------------------------------------------
(* The documents handed to the constructor (JSON.parse of the wiki text)   *)

MaxNotes == 3

MaxCalls == 3

\* a root object of the given members, in this order; JUndef leaves one out
Doc(ver, domainTags, banMacros, removalReasons, modMacros, usernoteColors, more) ==
    JObj(SelectSeq(<< Prop("ver", ver),
                      Prop("domainTags", domainTags),
                      Prop("banMacros", banMacros),
                      Prop("removalReasons", removalReasons),
                      Prop("modMacros", modMacros),
                      Prop("usernoteColors", usernoteColors),
                      Prop("notAValidToolboxConfig", more) >>,
                   LAMBDA p : p.v # JUndef))

\* the Toolbox default config: every section an empty string
DEFAULT_CONFIG ==
    JObj(<< Prop("ver", JNum(1)),
            Prop("domainTags", JStr("")),
            Prop("removalReasons", JStr("")),
            Prop("modMacros", JStr("")),
            Prop("usernoteColors", JStr("")),
            Prop("banMacros", JStr("")) >>)

DomainTag(name, color) ==
    JObj(<< Prop("name", JStr(name)), Prop("color", JStr(color)) >>)

BanMacro(note, message) ==
    JObj(<< Prop("banNote", JStr(note)), Prop("banMessage", JStr(message)) >>)

RemovalReason(title, posts) ==
    JObj(<< Prop("title", JStr(title)), Prop("text", JStr("B")),
            Prop("flairText", JStr("D")), Prop("flairCSS", JStr("C")),
            Prop("removePosts", JBool(posts)),
            Prop("removeComments", JBool(TRUE)) >>)

ModMacro(title, ban) ==
    JObj(<< Prop("title", JStr(title)), Prop("text", JStr("Macro%20Text")),
            Prop("distinguish", JBool(FALSE)), Prop("ban", JBool(ban)),
            Prop("mute", JBool(FALSE)), Prop("remove", JBool(FALSE)),
            Prop("approve", JBool(FALSE)), Prop("lockthread", JBool(FALSE)),
            Prop("sticky", JBool(FALSE)), Prop("archivemodmail", JBool(FALSE)),
            Prop("highlightmodmail", JBool(FALSE)) >>)

\* a removalReasons record: the eight strings, the two enums, the six
\* booleans (as a function of their names) and the reasons
RemovalReasons(strs, option, reply, bools, reasons) ==
    JObj(<< Prop("header", JStr(strs[1])),
            Prop("footer", JStr(strs[2])),
            Prop("pmsubject", JStr(strs[3])),
            Prop("logreason", JStr(strs[4])),
            Prop("logsub", JStr(strs[5])),
            Prop("logtitle", JStr(strs[6])),
            Prop("bantitle", JStr(strs[7])),
            Prop("getfrom", JStr(strs[8])),
            Prop("removalOption", JStr(option)),
            Prop("typeReply", JStr(reply)),
            Prop("typeStickied", JBool(bools[1])),
            Prop("typeCommentAsSubreddit", JBool(bools[2])),
            Prop("typeLockThread", JBool(bools[3])),
            Prop("typeLockComment", JBool(bools[4])),
            Prop("typeAsSub", JBool(bools[5])),
            Prop("autoArchive", JBool(bools[6])),
            Prop("reasons", JArr(reasons)) >>)

TestStrings ==
    << "Header", "Footer", "PM Subject", "", "", "", "", "mildlyinteresting" >>

AllTrue == [i \in 1..6 |-> TRUE]

\* the record of the tests (SubredditConfig.test.ts, 157-184)
TestRemovalReasons ==
    RemovalReasons(TestStrings, "force", "both", AllTrue,
                   << RemovalReason("A", TRUE) >>)

\* o without its key k
Without(obj, k) == JObj(SelectSeq(obj.o, LAMBDA p : p.k # k))

\* values that are no section at all; the first four coerce to null
Scalars == { JNull, JStr(""), JNum(0), JBool(FALSE), JStr("x"), JNum(2) }

VerValues ==
    { JUndef, JNull, JNum(0), JNum(1), JNum(2), JStr("1"), JStr("2"),
      JBool(TRUE), JStr("x") }

DomainTagsValues ==
    Scalars \cup
    { JArr(<< >>),
      JArr(<< DomainTag("youtube.com", "red") >>),
      JArr(<< DomainTag("youtube.com", "red"), DomainTag("imgur.com", "blue") >>),
      JArr(<< Set(DomainTag("youtube.com", "red"), "note", JStr("x")) >>),
      JArr(<< Without(DomainTag("youtube.com", "red"), "color") >>),
      JArr(<< Set(DomainTag("youtube.com", "red"), "color", JNum(2)) >>),
      JArr(<< JStr("youtube.com") >>),
      DomainTag("youtube.com", "red") }

BanMacrosValues ==
    Scalars \cup
    { BanMacro("note", "Message"),
      Set(BanMacro("note", "Message"), "banLength", JNum(2)),
      Without(BanMacro("note", "Message"), "banMessage"),
      Set(BanMacro("note", "Message"), "banNote", JNull),
      JArr(<< BanMacro("note", "Message") >>) }

ModMacrosValues ==
    Scalars \cup
    { JArr(<< >>),
      JArr(<< ModMacro("Macro", FALSE) >>),
      JArr(<< ModMacro("Macro", FALSE), ModMacro("Other", TRUE) >>),
      JArr(<< Set(ModMacro("Macro", FALSE), "lock", JBool(TRUE)) >>),
      JArr(<< Without(ModMacro("Macro", FALSE), "sticky") >>),
      JArr(<< Set(ModMacro("Macro", FALSE), "ban", JStr("true")) >>),
      JArr(<< JStr("Macro") >>) }

\* every combination of the six booleans; every pair of enum values, one
\* outside the enum included; each string changed in turn; the reasons;
\* and the records that are not of the declared shape
RemovalReasonsValues ==
    Scalars
    \cup { RemovalReasons(TestStrings, "force", "both", bools,
                          << RemovalReason("A", TRUE) >>) :
              bools \in [1..6 -> BOOLEAN] }
    \cup { RemovalReasons(TestStrings, option, reply, AllTrue, << >>) :
              option \in {"suggest", "leave", "force", "remove"},
              reply \in {"reply", "pm", "both", "none", "modmail"} }
    \cup { RemovalReasons([TestStrings EXCEPT ![i] = "x"], "leave", "pm",
                          [AllTrue EXCEPT ![(i % 6) + 1] = FALSE],
                          << RemovalReason("A", TRUE), RemovalReason("E", FALSE) >>) :
              i \in 1..8 }
    \cup { Set(TestRemovalReasons, "notASetting", JBool(TRUE)),
           Without(TestRemovalReasons, "reasons"),
           Without(TestRemovalReasons, "typeLockThread"),
           Set(TestRemovalReasons, "typeLockThread", JStr("false")),
           Set(TestRemovalReasons, "header", JNum(2)),
           Set(TestRemovalReasons, "reasons",
               JArr(<< Set(RemovalReason("A", TRUE), "flair", JStr("x")) >>)),
           Set(TestRemovalReasons, "reasons",
               JArr(<< Without(RemovalReason("A", TRUE), "text") >>)),
           Set(TestRemovalReasons, "reasons", JArr(<< JStr("A") >>)),
           Set(TestRemovalReasons, "reasons", JNull) }

\* the elements of a usernoteColors array: records (two of them share the
\* key "a"), and the elements that are no note type
NoteElements ==
    { UsernoteType("a", "b", "c"),
      UsernoteType("d", "e", "f"),
      UsernoteType("a", "h", "i"),
      Set(UsernoteType("g", "h", "i"), "color", JNum(2)),
      Set(UsernoteType("g", "h", "i"), "icon", JStr("x")),
      Without(UsernoteType("g", "h", "i"), "text"),
      JStr("red"),
      JNull }

RECURSIVE SeqsUpTo(_, _)
SeqsUpTo(S, n) ==
    IF n = 0 THEN { << >> }
    ELSE LET shorter == SeqsUpTo(S, n - 1)
         IN  shorter \cup { Append(q, e) : q \in shorter, e \in S }

UsernoteColorsValues ==
    Scalars \cup { JArr(q) : q \in SeqsUpTo(NoteElements, MaxNotes) }
            \cup { UsernoteType("a", "b", "c") }

\* one section varied over all its values, the rest of the document absent
OneSection ==
    { Doc(JNum(1), v, JUndef, JUndef, JUndef, JUndef, JUndef) : v \in DomainTagsValues }
    \cup { Doc(JNum(1), JUndef, v, JUndef, JUndef, JUndef, JUndef) : v \in BanMacrosValues }
    \cup { Doc(JNum(1), JUndef, JUndef, v, JUndef, JUndef, JUndef) : v \in RemovalReasonsValues }
    \cup { Doc(JNum(1), JUndef, JUndef, JUndef, v, JUndef, JUndef) : v \in ModMacrosValues }
    \cup { Doc(JNum(1), JUndef, JUndef, JUndef, JUndef, v, JUndef) : v \in UsernoteColorsValues }

\* the sections together: each absent, configured, null by coercion, or of
\* the wrong shape, under every version and with or without an unknown key
Together ==
    { Doc(ver, dt, bm, rr, mm, un, more) :
        ver \in VerValues,
        dt \in { JUndef, JArr(<< DomainTag("youtube.com", "red") >>),
                 JArr(<< JStr("youtube.com") >>) },
        bm \in { JUndef, JNull, BanMacro("note", "Message") },
        rr \in { JUndef, JStr(""), TestRemovalReasons,
                 Set(TestRemovalReasons, "notASetting", JBool(TRUE)) },
        mm \in { JUndef, JArr(<< ModMacro("Macro", FALSE) >>) },
        un \in { JUndef, JArr(<< >>),
                 JArr(<< UsernoteType("a", "b", "c"), UsernoteType("d", "e", "f"),
                         UsernoteType("g", "h", "i") >>),
                 JArr(<< JStr("red"), JStr("green"), JStr("purple") >>),
                 JArr(<< UsernoteType("a", "b", "c"), JStr("green") >>) },
        more \in { JUndef, JBool(TRUE) } }

Documents == OneSection \cup Together \cup { DEFAULT_CONFIG }

\* the keys getNoteType is asked for
NoteKeys == { "a", "d", "j", "gooduser" }

----------------------------------------------------------------------------
(* The state machine: one SubredditConfig and its caller                   *)

VARIABLES
    input,      \* the document parsed from the text given to the constructor
    status,     \* "new" before the constructor ran, then "ok" or "error"
    error,      \* the message of the error the constructor threw
    data,       \* this.data
    op,         \* the last method called
    arg,        \* its argument
    ret,        \* the value it returned
    out,        \* the text toString returned, as tokens
    noteCalls,  \* how many calls of getAllNoteTypes or getNoteType so far
    builtin,    \* the records the array DEFAULT_USERNOTE_TYPES holds now
    share,      \* what this.data.usernoteColors shares with that array
    ret2        \* what getAllNoteTypes returned on a second, empty config

\* the state outside the config: the module's default array, the objects the
\* config's note types share with it, and the second config's result
shared == << builtin, share, ret2 >>

vars == << input, status, error, data, op, arg, ret, out, noteCalls,
           builtin, share, ret2 >>

\* nothing shared: the array is the config's own, and so is every record
Unshared == [arr |-> FALSE, recs |-> << >>]

Init ==
    /\ input \in Documents
    /\ status = "new"
    /\ error = ""
    /\ data = JUndef
    /\ op = "none"
    /\ arg = ""
    /\ ret = JUndef
    /\ out = << >>
    /\ noteCalls = 0
    /\ builtin = DEFAULT_USERNOTE_TYPES
    /\ share = Unshared
    /\ ret2 = JUndef

Construct ==
    /\ status = "new"
    /\ LET c == constructor(input)
       IN  /\ status' = IF c.ok THEN "ok" ELSE "error"
           /\ error' = c.message
           /\ data' = c.data
    /\ op' = "constructor"
    /\ UNCHANGED << input, arg, ret, out, noteCalls >>
    /\ UNCHANGED shared

\* a method call that returns r.ret and leaves r.data
Call(name, key, r) ==
    /\ status = "ok"
    /\ op' = name
    /\ arg' = key
    /\ data' = r.data
    /\ ret' = r.ret
    /\ out' = << >>
    /\ UNCHANGED << input, status, error >>
    /\ UNCHANGED shared

GetAllNoteTypes ==
    /\ noteCalls < MaxCalls
    /\ Call("getAllNoteTypes", "", getAllNoteTypes(data))
    /\ noteCalls' = noteCalls + 1

GetNoteType ==
    /\ noteCalls < MaxCalls
    /\ \E key \in NoteKeys : Call("getNoteType", key, getNoteType(data, key))
    /\ noteCalls' = noteCalls + 1

GetDomainTags ==
    /\ Call("getDomainTags", "", getDomainTags(data))
    /\ UNCHANGED noteCalls

GetBanMacro ==
    /\ Call("getBanMacro", "", getBanMacro(data))
    /\ UNCHANGED noteCalls

GetRemovalReasonSettings ==
    /\ Call("getRemovalReasonSettings", "", getRemovalReasonSettings(data))
    /\ UNCHANGED noteCalls

GetRemovalReasons ==
    /\ Call("getRemovalReasons", "", getRemovalReasons(data))
    /\ UNCHANGED noteCalls

GetModMacros ==
    /\ Call("getModMacros", "", getModMacros(data))
    /\ UNCHANGED noteCalls

ToJSON ==
    /\ Call("toJSON", "", toJSON(data))
    /\ UNCHANGED noteCalls

CallToString ==
    /\ status = "ok"
    /\ op' = "toString"
    /\ arg' = ""
    /\ ret' = JUndef
    /\ out' = toString(data)
    /\ UNCHANGED << input, status, error, data, noteCalls >>
    /\ UNCHANGED shared

\* new SubredditConfig(text), text what toString() has just returned: ret
\* is the document of the new config, undefined where its constructor threw
Reconstruct ==
    /\ status = "ok"
    /\ op = "toString"
    /\ ret' = constructorFromText(out).data
    /\ op' = "reconstruct"
    /\ arg' = ""
    /\ UNCHANGED << input, status, error, data, out, noteCalls >>
    /\ UNCHANGED shared

Next ==
    \/ Construct
    \/ GetAllNoteTypes
    \/ GetNoteType
    \/ GetDomainTags
    \/ GetBanMacro
    \/ GetRemovalReasonSettings
    \/ GetRemovalReasons
    \/ GetModMacros
    \/ ToJSON
    \/ CallToString
    \/ Reconstruct

Spec == Init /\ [][Next]_vars

----------------------------------------------------------------------------
(* Callers that change what they were returned.  getAllNoteTypes returns   *)
(* this.data.usernoteColors itself, so what a caller does to that array    *)
(* is done to the document, and to the default array too where the two     *)
(* share an object.  A second config with no note types reads the default  *)
(* array as it is then.                                                    *)

CallerDocuments ==
    { Doc(JNum(1), JUndef, JUndef, JUndef, JUndef, JUndef, JUndef),
      Doc(JNum(1), JUndef, JUndef, JUndef, JUndef, JArr(<< >>), JUndef),
      Doc(JNum(1), JUndef, JUndef, JUndef, JUndef,
          JArr(<< UsernoteType("a", "b", "c"), UsernoteType("d", "e", "f") >>),
          JUndef),
      DEFAULT_CONFIG }

InitCallers ==
    /\ input \in CallerDocuments
    /\ status = "new"
    /\ error = ""
    /\ data = JUndef
    /\ op = "none"
    /\ arg = ""
    /\ ret = JUndef
    /\ out = << >>
    /\ noteCalls = 0
    /\ builtin = DEFAULT_USERNOTE_TYPES
    /\ share = Unshared
    /\ ret2 = JUndef

\* getAllNoteTypes, reading the default array as it is now
GetAllNoteTypesShared ==
    /\ status = "ok"
    /\ noteCalls < MaxCalls
    /\ LET u == Get(data, "usernoteColors")
           m == MaterializedTypes(builtin)
       IN  IF Falsy(u) \/ Len(u.a) = 0
           THEN /\ data' = Set(data, "usernoteColors", JArr(m.a))
                /\ share' = [arr |-> m.arr, recs |-> m.recs]
           ELSE /\ data' = data
                /\ UNCHANGED share
    /\ ret' = Get(data', "usernoteColors")
    /\ op' = "getAllNoteTypes"
    /\ arg' = ""
    /\ out' = << >>
    /\ noteCalls' = noteCalls + 1
    /\ UNCHANGED << input, status, error, builtin, ret2 >>

\* the caller holds the array the last call returned
HoldsReturned ==
    /\ status = "ok"
    /\ op \in { "getAllNoteTypes", "push", "splice", "edit" }

\* record i of the default array that element i of the config's array is
OwnerOf(i) == IF i \in DOMAIN share.recs THEN share.recs[i] ELSE 0

RemoveAt(q, i) == SubSeq(q, 1, i - 1) \o SubSeq(q, i + 1, Len(q))

\* the caller's change: the array becomes a, its records shared as recs;
\* the default array is the same array when share.arr, and becomes d
\* otherwise
Changed(name, a, recs, d) ==
    /\ data' = Set(data, "usernoteColors", JArr(a))
    /\ ret' = JArr(a)
    /\ share' = [share EXCEPT !.recs = recs]
    /\ builtin' = IF share.arr THEN a ELSE d
    /\ op' = name
    /\ arg' = ""
    /\ out' = << >>
    /\ UNCHANGED << input, status, error, noteCalls, ret2 >>

\* returned.push(noteType)
PushNoteType ==
    /\ HoldsReturned
    /\ Len(ret.a) <= MaxNotes
    /\ Changed("push",
               Append(ret.a, UsernoteType("watch", "blue", "Watch")),
               [i \in 1..(Len(ret.a) + 1) |-> OwnerOf(i)],
               builtin)

\* returned.splice(i, 1)
RemoveNoteType ==
    /\ HoldsReturned
    /\ \E i \in DOMAIN ret.a :
          Changed("splice",
                  RemoveAt(ret.a, i),
                  RemoveAt([j \in DOMAIN ret.a |-> OwnerOf(j)], i),
                  builtin)

\* returned[i].color = 'edited'
EditNoteType ==
    /\ HoldsReturned
    /\ \E i \in DOMAIN ret.a :
          LET edited == Set(ret.a[i], "color", JStr("edited"))
          IN  Changed("edit",
                      [ret.a EXCEPT ![i] = edited],
                      [j \in DOMAIN ret.a |-> OwnerOf(j)],
                      IF OwnerOf(i) > 0
                      THEN [builtin EXCEPT ![OwnerOf(i)] = edited]
                      ELSE builtin)

\* new SubredditConfig('{"ver":1}').getAllNoteTypes()
OtherGetAllNoteTypes ==
    /\ ret2' = JArr(MaterializedTypes(builtin).a)
    /\ UNCHANGED << input, status, error, data, op, arg, ret, out, noteCalls,
                    builtin, share >>

NextCallers ==
    \/ Construct
    \/ GetAllNoteTypesShared
    \/ PushNoteType
    \/ RemoveNoteType
    \/ EditNoteType
    \/ OtherGetAllNoteTypes

SpecCallers == InitCallers /\ [][NextCallers]_vars

----------------------------------------------------------------------------
(* What the claims speak of                                                *)

Sections ==
    { "domainTags", "banMacros", "removalReasons", "modMacros", "usernoteColors" }

SettingsFields ==
    { "header", "footer", "pmsubject", "logreason", "logsub", "logtitle",
      "bantitle", "getfrom", "removalOption", "typeReply", "typeStickied",
      "typeCommentAsSubreddit", "typeLockThread", "typeLockComment",
      "typeAsSub", "autoArchive" }

\* the document the constructor left in this.data
Constructed == constructor(input).data

\* the section as the constructor left it
Configured(k) == Get(Constructed, k)

\* the section is there after construction
Present(k) == Configured(k) # JUndef

\* an object somewhere in v owns a key its schema does not declare
RECURSIVE Undeclared(_, _)
Undeclared(schema, v) ==
    IF v.t = "object" /\ "properties" \in DOMAIN schema
    THEN \E i \in DOMAIN v.o :
            \/ \A j \in DOMAIN schema.properties : schema.properties[j].k # v.o[i].k
            \/ \E j \in DOMAIN schema.properties :
                  /\ schema.properties[j].k = v.o[i].k
                  /\ Undeclared(schema.properties[j].v, v.o[i].v)
    ELSE IF v.t = "array" /\ "items" \in DOMAIN schema
    THEN \E i \in DOMAIN v.a : Undeclared(schema.items, v.a[i])
    ELSE FALSE

----------------------------------------------------------------------------
\* C1: when the document has a removalReasons section, the record
\* getRemovalReasonSettings returns has each of the 16 settings equal to the
\* field of the same name in the document, and has no "reasons" key.
C1_SettingsEqualDocument ==
    (status = "ok" /\ op = "getRemovalReasonSettings" /\ Present("removalReasons"))
        => /\ \A f \in SettingsFields :
                 Get(ret, f) = Get(Get(data, "removalReasons"), f)
           /\ ~HasKey(ret, "reasons")

\* C2: no document in which some object owns a key the schema does not
\* declare at that level is ever accepted by the constructor.
C2_ClosedAtEveryLevel ==
    status = "ok" => ~Undeclared(CONFIG_SCHEMA, input)

----------------------------------------------------------------------------
\* the text holds the tokens part, one after the other
Includes(text, part) ==
    \E i \in 0..(Len(text) - Len(part)) :
        \A j \in DOMAIN part : text[i + j] = part[j]

\* the text of the default note types as a member of the document
DefaultTypesText ==
    << StrTok("usernoteColors"), Punct(":") >>
        \o Stringify(JArr(DEFAULT_USERNOTE_TYPES))

\* C3 as claimed: whenever the note-types field is a sequence, the empty one
\* included, getAllNoteTypes returns the configured sequence and leaves the
\* document as the constructor left it.
C3_AnySequenceIsReturned ==
    (status = "ok" /\ op = "getAllNoteTypes"
        /\ Get(input, "usernoteColors").t = "array")
        => /\ ret = Configured("usernoteColors")
           /\ data = Constructed

\* C3 (amended): getAllNoteTypes returns the configured sequence and leaves
\* the document unchanged when the note-types field is a non-empty sequence;
\* when the field is absent or is the empty sequence it returns the built-in
\* default and writes it into the document.
C3_NonEmptySequenceIsReturned ==
    (status = "ok" /\ op = "getAllNoteTypes")
        => IF Present("usernoteColors") /\ Len(Configured("usernoteColors").a) > 0
           THEN /\ ret = Configured("usernoteColors")
                /\ data = Constructed
           ELSE /\ ret = JArr(DEFAULT_USERNOTE_TYPES)
                /\ data = Set(Constructed, "usernoteColors",
                              JArr(DEFAULT_USERNOTE_TYPES))

C3_Witness ==
    /\ status = "ok"
    /\ op = "getAllNoteTypes"
    /\ Get(input, "usernoteColors").t = "array"
    /\ Len(Get(input, "usernoteColors").a) = 3
    /\ ret = Get(input, "usernoteColors")
    /\ data = input

\* C4: a document without a note-types field serializes (toJSON, toString)
\* without one until the first call of getAllNoteTypes or getNoteType; a
\* first call of getAllNoteTypes returns the built-in default; and from the
\* first call on toJSON and toString hold that default verbatim, whatever
\* is called afterwards.
C4_DefaultPersistsFromFirstCall ==
    (status = "ok" /\ ~Present("usernoteColors"))
        => /\ noteCalls = 0 =>
                /\ Get(toJSON(data).ret, "usernoteColors") = JUndef
                /\ ~Includes(toString(data),
                             << StrTok("usernoteColors"), Punct(":") >>)
           /\ (noteCalls = 1 /\ op = "getAllNoteTypes") =>
                ret = JArr(DEFAULT_USERNOTE_TYPES)
           /\ noteCalls >= 1 =>
                /\ Get(toJSON(data).ret, "usernoteColors")
                      = JArr(DEFAULT_USERNOTE_TYPES)
                /\ Includes(toString(data), DefaultTypesText)

C4_Witness ==
    /\ status = "ok"
    /\ ~HasKey(input, "usernoteColors")
    /\ noteCalls = 2
    /\ op = "toString"
    /\ Includes(out, DefaultTypesText)

C6_FirstMatchWins ==
    (status = "ok" /\ op = "getNoteType")
        => LET a == Get(data, "usernoteColors").a
           IN  /\ \A i \in DOMAIN a :
                     ( /\ Get(a[i], "key") = JStr(arg)
                       /\ \A j \in 1..(i - 1) : Get(a[j], "key") # JStr(arg) )
                        => ret = a[i]
               /\ (\A i \in DOMAIN a : Get(a[i], "key") # JStr(arg))
                        => ret = JUndef
               /\ a = IF Present("usernoteColors")
                         /\ Len(Configured("usernoteColors").a) > 0
                      THEN Configured("usernoteColors").a
                      ELSE DEFAULT_USERNOTE_TYPES

C6_Witness ==
    /\ status = "ok"
    /\ op = "getNoteType"
    /\ arg = "a"
    /\ Get(input, "usernoteColors")
          = JArr(<< UsernoteType("d", "e", "f"), UsernoteType("a", "h", "i"),
                    UsernoteType("a", "b", "c") >>)
    /\ ret = UsernoteType("a", "h", "i")

----------------------------------------------------------------------------
VersionOutside(doc) ==
    \/ ~HasKey(doc, "ver")
    \/ /\ Get(doc, "ver").t = "number"
       /\ \/ Get(doc, "ver").n < EARLIEST_KNOWN_CONFIG_SCHEMA
          \/ Get(doc, "ver").n > LATEST_KNOWN_CONFIG_SCHEMA

\* C8: the document of a constructed config has a version within
\* [earliest known, latest known] in every state, and the constructor fails,
\* leaving no config, for a document whose version is missing, below the
\* earliest or above the latest known version.
C8_VersionWithinKnownRange ==
    /\ status = "ok" =>
          /\ Get(data, "ver").t = "number"
          /\ Get(data, "ver").n >= EARLIEST_KNOWN_CONFIG_SCHEMA
          /\ Get(data, "ver").n <= LATEST_KNOWN_CONFIG_SCHEMA
    /\ (status # "new" /\ VersionOutside(input)) =>
          /\ status = "error"
          /\ error # ""
          /\ data = JUndef

C8_Witness ==
    /\ status = "ok"
    /\ Get(input, "ver") = JStr("1")
    /\ Get(data, "ver") = JNum(1)
    /\ noteCalls > 0
    /\ data # Constructed

\* the note-type sequence of the document has an element that is no record
HasNonRecord(doc) ==
    /\ Get(doc, "usernoteColors").t = "array"
    /\ \E i \in DOMAIN Get(doc, "usernoteColors").a :
          Get(doc, "usernoteColors").a[i].t # "object"

FirstNonRecord(doc) ==
    FirstOf({ i \in DOMAIN Get(doc, "usernoteColors").a :
                 Get(doc, "usernoteColors").a[i].t # "object" })

MustBeObject(i) == "data/usernoteColors/" \o ToString(i - 1) \o " must be object"

\* the document with its note types cut before the first non-record
BeforeFirstNonRecord(doc) ==
    Set(doc, "usernoteColors",
        JArr(SubSeq(Get(doc, "usernoteColors").a, 1, FirstNonRecord(doc) - 1)))

\* C9 as claimed: the constructor fails for every document whose note-type
\* sequence has an element that is no record, with the error
\* data/usernoteColors/<index> must be object of the first such element.
C9_ErrorNamesFirstNonRecord ==
    (status # "new" /\ HasNonRecord(input))
        => /\ status = "error"
           /\ data = JUndef
           /\ error = MustBeObject(FirstNonRecord(input))

\* C9 (amended): the constructor fails, leaving no config, for every
\* document whose note-type sequence has an element that is no record; the
\* error is data/usernoteColors/<index> must be object of the first such
\* element whenever nothing before that element is in error (the document
\* with the sequence cut before it constructs).
C9_NonRecordIsRejected ==
    (status # "new" /\ HasNonRecord(input))
        => /\ status = "error"
           /\ data = JUndef
           /\ constructor(BeforeFirstNonRecord(input)).ok
                 => error = MustBeObject(FirstNonRecord(input))

C9_Witness ==
    /\ status = "error"
    /\ Get(input, "usernoteColors")
          = JArr(<< UsernoteType("a", "b", "c"), JStr("red"), JNull >>)
    /\ error = "data/usernoteColors/1 must be object"
    /\ data = JUndef

ReadOnlyMethods ==
    { "getDomainTags", "getBanMacro", "getRemovalReasonSettings",
      "getRemovalReasons", "getModMacros", "toJSON", "toString" }

\* C10: a call of getDomainTags, getBanMacro, getRemovalReasonSettings,
\* getRemovalReasons, getModMacros, toJSON or toString leaves the document
\* as it was, the section present or not; only getAllNoteTypes and
\* getNoteType change the document, which is all that toString writes.
C10_DefaultsAreEphemeral ==
    [][status = "ok" =>
          /\ op' \in ReadOnlyMethods => data' = data
          /\ data' # data => op' \in { "getAllNoteTypes", "getNoteType" }]_vars

C10_Witness ==
    /\ status = "ok"
    /\ op = "getDomainTags"
    /\ ~HasKey(input, "domainTags")
    /\ ret = JArr(<< >>)
    /\ ~HasKey(data, "domainTags")
    /\ data = Constructed

----------------------------------------------------------------------------
\* C11: what is materialized is a copy of the default array and of each of
\* its records: whatever a caller does to the sequence getAllNoteTypes
\* returned (adding, removing, editing a record), the default array stays
\* as it was, and getAllNoteTypes on another config without note types
\* returns the original default sequence.
C11_DefaultIsNeverChanged ==
    /\ builtin = DEFAULT_USERNOTE_TYPES
    /\ ret2 # JUndef => ret2 = JArr(DEFAULT_USERNOTE_TYPES)

C11_Witness ==
    /\ status = "ok"
    /\ ~HasKey(input, "usernoteColors")
    /\ op = "edit"
    /\ Len(ret.a) = Len(DEFAULT_USERNOTE_TYPES)
    /\ Get(ret.a[1], "color") = JStr("edited")
    /\ Get(data, "usernoteColors") = ret
    /\ ret2 = JArr(DEFAULT_USERNOTE_TYPES)

----------------------------------------------------------------------------
\* C12: the default is materialized at most once per config: in any
\* sequence of getAllNoteTypes and getNoteType calls, each running to its
\* end, only the first can change the document (from then on the document
\* stays what the first call left, so it is the same after the second call
\* as after the first), and every getAllNoteTypes call returns the sequence
\* the document holds.
C12_MaterializedAtMostOnce ==
    [][status = "ok" =>
          /\ noteCalls >= 1 => data' = data
          /\ op' = "getAllNoteTypes" => ret' = Get(data', "usernoteColors")]_vars

C12_Witness ==
    /\ status = "ok"
    /\ ~Present("usernoteColors")
    /\ noteCalls >= 2
    /\ op = "getAllNoteTypes"
    /\ ret = JArr(DEFAULT_USERNOTE_TYPES)
    /\ Get(data, "usernoteColors") = ret
    /\ data # Constructed

----------------------------------------------------------------------------
\* C13: the text round-trips: for a constructed config, after any calls of
\* its accessors (those that materialized the default note types too),
\* constructing a new config from its toString() succeeds, and the new
\* config's toString() is the same text.
C13_TextRoundTrips ==
    op = "reconstruct" =>
        /\ out = toString(data)
        /\ ret # JUndef
        /\ toString(ret) = out

C13_Witness ==
    /\ status = "ok"
    /\ op = "reconstruct"
    /\ ~Present("usernoteColors")
    /\ noteCalls >= 1
    /\ data # Constructed
    /\ Get(ret, "usernoteColors") = JArr(DEFAULT_USERNOTE_TYPES)
    /\ toString(ret) = out
    /\ out # toString(Constructed)

====
